---- MODULE Spec2Model ----
(***************************************************************************)
(* Model of Summarizing_long_documents.ipynb: the chunk packer             *)
(* (combine_chunks_with_no_minimum), the delimited chunker                 *)
(* (chunk_on_delimiter) and the orchestrator (summarize).                  *)
(*                                                                         *)
(* A Python str is a sequence of one-character strings; a list of str is a *)
(* sequence of such sequences.  Optional[str] is a list of length 0 (None) *)
(* or 1.  Indices of segments are zero-based, as enumerate() gives them.   *)
(***************************************************************************)
EXTENDS Integers, Sequences, FiniteSets, TLC

(* ------------------------------ bounds -------------------------------- *)
\* longest segment list handed to combine_chunks_with_no_minimum
MaxSegs == 3
\* largest max_tokens handed to combine_chunks_with_no_minimum
MaxBudget == 3
\* longest input_string handed to chunk_on_delimiter
MaxTextLen == 5
\* longest text handed to summarize
MaxDocLen == 7
\* largest minimum_chunk_size handed to summarize
MaxMinChunk == 2
\* detail is a multiple of 1/DetailDen (exact in binary floating point)
DetailDen == 4

(* ------------------------------ strings ------------------------------- *)
A == "a"
Dot == "."
NL == "\n"

Max(S) == CHOOSE x \in S : \A y \in S : y <= x

\* the literal "..." of lines 185 and 187
Ellipsis == <<Dot, Dot, Dot>>

\* str.join: the members separated by the delimiter
RECURSIVE Join(_, _)
Join(list, delimiter) ==
    IF list = <<>> THEN <<>>
    ELSE IF Len(list) = 1 THEN list[1]
    ELSE list[1] \o delimiter \o Join(Tail(list), delimiter)

\* does the delimiter occur in s at position p
OccursAt(s, delimiter, p) ==
    /\ p + Len(delimiter) - 1 <= Len(s)
    /\ SubSeq(s, p, p + Len(delimiter) - 1) = delimiter

\* str.split with a non-empty separator: leftmost, non-overlapping
RECURSIVE Split(_, _)
Split(s, delimiter) ==
    LET hits == {p \in 1..Len(s) : OccursAt(s, delimiter, p)}
    IN  IF hits = {} THEN <<s>>
        ELSE LET p == CHOOSE q \in hits : \A r \in hits : q <= r
             IN  <<SubSeq(s, 1, p - 1)>>
                 \o Split(SubSeq(s, p + Len(delimiter), Len(s)), delimiter)

(* ----------------------------- tokenizer ------------------------------ *)
\* The encoding of tiktoken.encoding_for_model(gpt_model), reduced to the
\* characters of the model: a byte-pair vocabulary in which a run of up to
\* four dots and a blank line are single tokens.
Vocab ==
    { <<A>>, <<Dot>>, <<Dot, Dot>>, <<Dot, Dot, Dot>>, <<Dot, Dot, Dot, Dot>>,
      <<NL>>, <<NL, NL>> }

\* encoding.encode: the longest vocabulary entry first, left to right
RECURSIVE tokenize(_)
tokenize(text) ==
    IF text = <<>> THEN <<>>
    ELSE LET n == Max({k \in 1..Len(text) : SubSeq(text, 1, k) \in Vocab})
         IN  <<SubSeq(text, 1, n)>> \o tokenize(SubSeq(text, n + 1, Len(text)))

(* --------------------- combine_chunks_with_no_minimum ------------------ *)
\* a: the arguments  [chunks, max_tokens, chunk_delimiter, header,
\*                    add_ellipsis_for_overflow]
\* s: the locals     [output, output_indices, candidate, candidate_indices,
\*                    dropped_chunk_count]

\* the locals before the loop
InitLocals(a) ==
    [ output |-> <<>>,
      output_indices |-> <<>>,
      candidate |-> a.header,
      candidate_indices |-> <<>>,
      dropped_chunk_count |-> 0 ]

\* chunk_with_header = [chunk] if header is None else [header, chunk]
chunk_with_header(a, chunk) == a.header \o <<chunk>>

\* len(tokenize(chunk_delimiter.join(chunk_with_header))) > max_tokens
Overflows(a, chunk) ==
    Len(tokenize(Join(chunk_with_header(a, chunk), a.chunk_delimiter))) > a.max_tokens

EllipsisFitsAlways(a, s) == a.add_ellipsis_for_overflow

\* add_ellipsis_for_overflow and the candidate plus "..." stays in budget
EllipsisFits(a, s) ==
    /\ a.add_ellipsis_for_overflow
    /\ Len(tokenize(Join(Append(s.candidate, Ellipsis), a.chunk_delimiter))) <= a.max_tokens

\* estimate token count with the current chunk added
extended_candidate_token_count(a, s, chunk) ==
    Len(tokenize(Join(Append(s.candidate, chunk), a.chunk_delimiter)))

ExceedsBudgetOrEqual(count, max_tokens) == count >= max_tokens

ExceedsBudgetPlusOne(count, max_tokens) == count > max_tokens + 1

\* the test that seals the candidate
ExceedsBudget(count, max_tokens) == count > max_tokens

OverflowBranchRecordingIndex(a, s, chunk_i) ==
    IF EllipsisFits(a, s)
    THEN [s EXCEPT !.candidate = Append(@, Ellipsis),
                   !.candidate_indices = Append(@, chunk_i),
                   !.dropped_chunk_count = @ + 1]
    ELSE s

\* the oversized segment: an ellipsis marker if it fits, then continue
OverflowBranch(a, s, chunk_i) ==
    IF EllipsisFits(a, s)
    THEN [s EXCEPT !.candidate = Append(@, Ellipsis),
                   !.dropped_chunk_count = @ + 1]
    ELSE s

\* seal the candidate and start a new one from chunk_with_header
SealBranch(a, s, chunk_i) ==
    [s EXCEPT !.output = Append(@, Join(s.candidate, a.chunk_delimiter)),
              !.output_indices = Append(@, s.candidate_indices),
              !.candidate = chunk_with_header(a, a.chunks[chunk_i + 1]),
              !.candidate_indices = <<chunk_i>>]

\* keep extending the candidate
ExtendBranch(a, s, chunk_i) ==
    [s EXCEPT !.candidate = Append(@, a.chunks[chunk_i + 1]),
              !.candidate_indices = Append(@, chunk_i)]

\* one iteration of the loop over enumerate(chunks)
LoopBody(a, s, chunk_i) ==
    LET chunk == a.chunks[chunk_i + 1]
    IN  IF Overflows(a, chunk) THEN OverflowBranch(a, s, chunk_i)
        ELSE IF ExceedsBudget(extended_candidate_token_count(a, s, chunk), a.max_tokens)
             THEN SealBranch(a, s, chunk_i)
             ELSE ExtendBranch(a, s, chunk_i)

CandidateAlwaysSealed(a, s) == TRUE

\* the remaining candidate is not empty
CandidateHasContent(a, s) ==
    \/ a.header # <<>> /\ Len(s.candidate) > 1
    \/ a.header = <<>> /\ Len(s.candidate) > 0

LoopEndDroppingRemainder(a, s) == s

\* add the remaining candidate to output if it's not empty
LoopEnd(a, s) ==
    IF CandidateHasContent(a, s)
    THEN [s EXCEPT !.output = Append(@, Join(s.candidate, a.chunk_delimiter)),
                   !.output_indices = Append(@, s.candidate_indices)]
    ELSE s

\* the loop run over the first n segments
RECURSIVE LoopUpTo(_, _)
LoopUpTo(a, n) ==
    IF n = 0 THEN InitLocals(a) ELSE LoopBody(a, LoopUpTo(a, n - 1), n - 1)

\* the whole call: (output, output_indices, dropped_chunk_count) in the locals
combine_chunks_with_no_minimum(a) == LoopEnd(a, LoopUpTo(a, Len(a.chunks)))


(* --------------------------- chunk_on_delimiter ------------------------ *)
\* the print of line 182
OverflowWarning == <<"warning: chunk overflow">>

\* the print of line 159
DroppedWarning(dropped_chunk_count) ==
    <<"warning: chunks were dropped due to overflow", dropped_chunk_count>>

PackerCallWithoutEllipsis(input_string, max_tokens, delimiter) ==
    [ chunks |-> Split(input_string, delimiter),
      max_tokens |-> max_tokens,
      chunk_delimiter |-> delimiter,
      header |-> <<>>,
      add_ellipsis_for_overflow |-> FALSE ]

\* the arguments chunk_on_delimiter hands to combine_chunks_with_no_minimum
PackerCall(input_string, max_tokens, delimiter) ==
    [ chunks |-> Split(input_string, delimiter),
      max_tokens |-> max_tokens,
      chunk_delimiter |-> delimiter,
      header |-> <<>>,
      add_ellipsis_for_overflow |-> TRUE ]

\* if dropped_chunk_count > 0: print(...)
AggregateWarning(dropped_chunk_count) ==
    IF dropped_chunk_count > 0 THEN << DroppedWarning(dropped_chunk_count) >> ELSE <<>>

ReattachAllButLast(output, delimiter) ==
    [ k \in 1..Len(output) |->
        IF k < Len(output) THEN output[k] \o delimiter ELSE output[k] ]

\* [f"{chunk}{delimiter}" for chunk in combined_chunks]
Reattach(output, delimiter) ==
    [ k \in 1..Len(output) |-> output[k] \o delimiter ]

\* what the packer prints on the way: one line per oversized segment
PackerPrints(a) ==
    LET oversized == { i \in 1..Len(a.chunks) : Overflows(a, a.chunks[i]) }
    IN  [ j \in 1..Cardinality(oversized) |-> OverflowWarning ]

\* the whole call: the returned chunks and the lines it printed
chunk_on_delimiter(input_string, max_tokens, delimiter) ==
    LET a == PackerCall(input_string, max_tokens, delimiter)
        r == combine_chunks_with_no_minimum(a)
    IN  [ combined_chunks |-> Reattach(r.output, delimiter),
          printed |-> PackerPrints(a) \o AggregateWarning(r.dropped_chunk_count) ]

(* ------------------------------ summarize ------------------------------ *)
min_chunks == 1

\* int(): truncation toward zero of the quotient n / d, d > 0
Trunc(n, d) == IF n >= 0 THEN n \div d ELSE -((-n) \div d)

DetailOkLowerOnly(detail) == 0 <= detail

\* assert 0 <= detail <= 1, detail given as its numerator over DetailDen
DetailOk(detail) == 0 <= detail /\ detail <= DetailDen

num_chunks_sign_slip(detail, max_chunks) ==
    Trunc(DetailDen * min_chunks + detail * (min_chunks - max_chunks), DetailDen)

num_chunks_without_minimum(detail, max_chunks) ==
    Trunc(detail * (max_chunks - min_chunks), DetailDen)

\* int(min_chunks + detail * (max_chunks - min_chunks))
num_chunks_of(detail, max_chunks) ==
    Trunc(DetailDen * min_chunks + detail * (max_chunks - min_chunks), DetailDen)

chunk_size_min(minimum_chunk_size, document_length, num_chunks) ==
    LET q == document_length \div num_chunks
    IN  IF minimum_chunk_size <= q THEN minimum_chunk_size ELSE q

\* max(minimum_chunk_size, document_length // num_chunks), num_chunks > 0
chunk_size_of(minimum_chunk_size, document_length, num_chunks) ==
    LET q == document_length \div num_chunks
    IN  IF minimum_chunk_size >= q THEN minimum_chunk_size ELSE q

BlankLine == <<NL, NL>>

\* "Rewrite this text in summarized form.", then the additional instructions
system_message_content(additional_instructions) ==
    IF additional_instructions = <<>>
    THEN <<"Rewrite this text in summarized form.">>
    ELSE <<"Rewrite this text in summarized form.">> \o BlankLine
         \o additional_instructions[1]

user_message_last_summary_only(summarize_recursively, accumulated_summaries, chunk) ==
    IF summarize_recursively /\ accumulated_summaries # <<>>
    THEN <<"Previous summaries:">> \o BlankLine
         \o accumulated_summaries[Len(accumulated_summaries)]
         \o BlankLine \o <<"Text to summarize next:">> \o BlankLine \o chunk
    ELSE chunk

user_message_headings_always(summarize_recursively, accumulated_summaries, chunk) ==
    IF summarize_recursively
    THEN <<"Previous summaries:">> \o BlankLine
         \o Join(accumulated_summaries, BlankLine)
         \o BlankLine \o <<"Text to summarize next:">> \o BlankLine \o chunk
    ELSE chunk

\* the prompt of lines 283-289
user_message_content(summarize_recursively, accumulated_summaries, chunk) ==
    IF summarize_recursively /\ accumulated_summaries # <<>>
    THEN <<"Previous summaries:">> \o BlankLine
         \o Join(accumulated_summaries, BlankLine)
         \o BlankLine \o <<"Text to summarize next:">> \o BlankLine \o chunk
    ELSE chunk

\* the messages of lines 292-295
messages_of(system_content, user_content) ==
    << [role |-> "system", content |-> system_content],
       [role |-> "user", content |-> user_content] >>

final_summary_single_newline(accumulated_summaries) ==
    Join(accumulated_summaries, <<NL>>)

\* final_summary = '\n\n'.join(accumulated_summaries)
final_summary(accumulated_summaries) == Join(accumulated_summaries, BlankLine)

ChunksLeftButLast(k, text_chunks) == k + 1 < Len(text_chunks)

\* the for loop of line 282 has a chunk left at position k (zero-based)
ChunksLeft(k, text_chunks) == k < Len(text_chunks)

(* ------------------------------- state -------------------------------- *)
VARIABLES
    pc,               \* where the running call stands
    stdout,           \* the lines printed so far
    args,             \* combine_chunks_with_no_minimum: its arguments
    loc,              \* combine_chunks_with_no_minimum: its locals
    chunk_i,          \* combine_chunks_with_no_minimum: position in enumerate(chunks)
    cod,              \* chunk_on_delimiter: its arguments
    combined_chunks,  \* chunk_on_delimiter: the list it returns
    sargs,            \* summarize: its arguments
    sloc,             \* summarize: its locals
    passes,           \* summarize: the max_tokens of each chunk_on_delimiter call made
    calls,            \* the completion service's log of the requests received
    outcome           \* summarize: how the call ended

packer == <<args, loc, chunk_i>>
chunker == <<cod, combined_chunks>>
summarizer == <<sargs, sloc, passes, calls, outcome>>
vars == <<pc, stdout, args, loc, chunk_i, cod, combined_chunks,
          sargs, sloc, passes, calls, outcome>>

\* the segment lists, delimiters and headers the packer is called with
Segments == { <<>>, <<A>>, <<A, A, A>>, <<Dot>> }
Delimiters == { <<Dot>>, <<NL, NL>> }
Headers == { <<>>, << <<>> >>, << <<A>> >> }

RECURSIVE SeqsUpTo(_, _)
SeqsUpTo(S, n) ==
    IF n = 0 THEN { <<>> }
    ELSE LET shorter == SeqsUpTo(S, n - 1)
         IN  shorter \cup { Append(q, x) : q \in {r \in shorter : Len(r) = n - 1}, x \in S }

PackArgs ==
    [ chunks : SeqsUpTo(Segments, MaxSegs),
      max_tokens : 0..MaxBudget,
      chunk_delimiter : Delimiters,
      header : Headers,
      add_ellipsis_for_overflow : BOOLEAN ]

NoPackerCall ==
    /\ args = [ chunks |-> <<>>, max_tokens |-> 0, chunk_delimiter |-> <<Dot>>,
                header |-> <<>>, add_ellipsis_for_overflow |-> FALSE ]
    /\ loc = InitLocals(args)
    /\ chunk_i = 0

NoChunkerCall ==
    /\ cod = [ input_string |-> <<>>, max_tokens |-> 0, delimiter |-> <<Dot>> ]
    /\ combined_chunks = <<>>

InitSummarizeLocals ==
    [ max_chunks |-> 0, num_chunks |-> 0, document_length |-> 0, chunk_size |-> 0,
      text_chunks |-> <<>>, system_message_content |-> <<>>,
      accumulated_summaries |-> <<>>, k |-> 0 ]

Running == [ status |-> "running", value |-> <<>> ]

NoSummarizeCall ==
    /\ sargs = [ text |-> <<>>, detail |-> 0, minimum_chunk_size |-> 0,
                 chunk_delimiter |-> <<Dot>>, summarize_recursively |-> FALSE,
                 additional_instructions |-> <<>> ]
    /\ sloc = InitSummarizeLocals
    /\ passes = <<>>
    /\ calls = <<>>
    /\ outcome = Running

(* ---------------- combine_chunks_with_no_minimum, stepwise ------------- *)
\* a call of combine_chunks_with_no_minimum, before its loop
Init ==
    /\ args \in PackArgs
    /\ loc = InitLocals(args)
    /\ chunk_i = 0
    /\ pc = "loop"
    /\ stdout = <<>>
    /\ NoChunkerCall
    /\ NoSummarizeCall

InLoop == pc = "loop" /\ chunk_i < Len(args.chunks)

Iterate ==
    /\ loc' = LoopBody(args, loc, chunk_i)
    /\ chunk_i' = chunk_i + 1
    /\ UNCHANGED <<args, pc, chunker, summarizer>>

\* lines 181-189
SkipOversized ==
    /\ InLoop
    /\ Overflows(args, args.chunks[chunk_i + 1])
    /\ stdout' = Append(stdout, OverflowWarning)
    /\ Iterate

\* lines 193-197
SealAndRestart ==
    /\ InLoop
    /\ ~Overflows(args, args.chunks[chunk_i + 1])
    /\ ExceedsBudget(extended_candidate_token_count(args, loc, args.chunks[chunk_i + 1]),
                     args.max_tokens)
    /\ UNCHANGED stdout
    /\ Iterate

\* lines 199-201
ExtendCandidate ==
    /\ InLoop
    /\ ~Overflows(args, args.chunks[chunk_i + 1])
    /\ ~ExceedsBudget(extended_candidate_token_count(args, loc, args.chunks[chunk_i + 1]),
                      args.max_tokens)
    /\ UNCHANGED stdout
    /\ Iterate

\* lines 203-206
SealRemainder ==
    /\ pc = "loop"
    /\ chunk_i = Len(args.chunks)
    /\ loc' = LoopEnd(args, loc)
    /\ pc' = "done"
    /\ UNCHANGED <<stdout, args, chunk_i, chunker, summarizer>>

Next == SkipOversized \/ SealAndRestart \/ ExtendCandidate \/ SealRemainder

Spec == Init /\ [][Next]_vars

(* --------------------- chunk_on_delimiter, stepwise -------------------- *)
Chars == { A, Dot }

\* every string over Chars of length at most n
Texts(n) == SeqsUpTo(Chars, n)

\* a call of chunk_on_delimiter, before its first line
InitChunk ==
    /\ cod \in [ input_string : SeqsUpTo(Chars \cup {NL}, MaxTextLen),
                 max_tokens : 0..MaxBudget,
                 delimiter : Delimiters ]
    /\ combined_chunks = <<>>
    /\ pc = "split"
    /\ stdout = <<>>
    /\ NoPackerCall
    /\ NoSummarizeCall

\* lines 154-157: split and enter combine_chunks_with_no_minimum
SplitAndPack ==
    /\ pc = "split"
    /\ args' = PackerCall(cod.input_string, cod.max_tokens, cod.delimiter)
    /\ loc' = InitLocals(args')
    /\ chunk_i' = 0
    /\ pc' = "loop"
    /\ UNCHANGED <<stdout, chunker, summarizer>>

\* lines 158-161: the aggregate warning, the delimiter reattached, return
WarnAndReattach ==
    /\ pc = "done"
    /\ stdout' = stdout \o AggregateWarning(loc.dropped_chunk_count)
    /\ combined_chunks' = Reattach(loc.output, cod.delimiter)
    /\ pc' = "returned"
    /\ UNCHANGED <<packer, cod, summarizer>>

NextChunk ==
    \/ SplitAndPack
    \/ SkipOversized \/ SealAndRestart \/ ExtendCandidate \/ SealRemainder
    \/ WarnAndReattach

SpecChunk == InitChunk /\ [][NextChunk]_vars

(* --------------------------- summarize, stepwise ----------------------- *)
\* additional_instructions: None or a string
Instructions == { <<>>, << <<"i">> >> }

\* what the completion service answers with
Responses == { <<>>, <<"s">> }

Raised(error) == [ status |-> "raised", value |-> <<error>> ]
Returned(value) == [ status |-> "returned", value |-> value ]

\* a call of summarize, before its first line
InitSum ==
    /\ sargs \in [ text : Texts(MaxDocLen),
                   detail : (-1)..(DetailDen + 1),
                   minimum_chunk_size : 1..MaxMinChunk,
                   chunk_delimiter : { <<Dot>> },
                   summarize_recursively : BOOLEAN,
                   additional_instructions : Instructions ]
    /\ sloc = InitSummarizeLocals
    /\ passes = <<>>
    /\ calls = <<>>
    /\ outcome = Running
    /\ pc = "assert"
    /\ stdout = <<>>
    /\ NoPackerCall
    /\ NoChunkerCall

\* line 261
CheckDetail ==
    /\ pc = "assert"
    /\ IF DetailOk(sargs.detail)
       THEN pc' = "probe" /\ UNCHANGED outcome
       ELSE pc' = "raised" /\ outcome' = Raised("AssertionError")
    /\ UNCHANGED <<stdout, packer, chunker, sargs, sloc, passes, calls>>

\* lines 264-266
Probe ==
    /\ pc = "probe"
    /\ LET r == chunk_on_delimiter(sargs.text, sargs.minimum_chunk_size,
                                   sargs.chunk_delimiter)
           max_chunks == Len(r.combined_chunks)
       IN  /\ sloc' = [sloc EXCEPT !.max_chunks = max_chunks,
                                   !.num_chunks = num_chunks_of(sargs.detail, max_chunks)]
           /\ stdout' = stdout \o r.printed
    /\ passes' = Append(passes, sargs.minimum_chunk_size)
    /\ pc' = "rechunk"
    /\ UNCHANGED <<packer, chunker, sargs, calls, outcome>>

\* lines 269-281
Rechunk ==
    /\ pc = "rechunk"
    /\ LET document_length == Len(tokenize(sargs.text))
       IN  IF sloc.num_chunks = 0
           THEN /\ sloc' = [sloc EXCEPT !.document_length = document_length]
                /\ outcome' = Raised("ZeroDivisionError")
                /\ pc' = "raised"
                /\ UNCHANGED <<stdout, passes>>
           ELSE LET chunk_size == chunk_size_of(sargs.minimum_chunk_size,
                                                document_length, sloc.num_chunks)
                    r == chunk_on_delimiter(sargs.text, chunk_size, sargs.chunk_delimiter)
                IN  /\ sloc' = [sloc EXCEPT
                            !.document_length = document_length,
                            !.chunk_size = chunk_size,
                            !.text_chunks = r.combined_chunks,
                            !.system_message_content =
                                system_message_content(sargs.additional_instructions),
                            !.accumulated_summaries = <<>>]
                    /\ stdout' = stdout \o r.printed
                    /\ passes' = Append(passes, chunk_size)
                    /\ pc' = "for_chunk"
                    /\ UNCHANGED outcome
    /\ UNCHANGED <<packer, chunker, sargs, calls>>

\* lines 282-298: the prompt for the next chunk, sent to the completion service
IssueCall ==
    /\ pc = "for_chunk"
    /\ ChunksLeft(sloc.k, sloc.text_chunks)
    /\ LET chunk == sloc.text_chunks[sloc.k + 1]
           user == user_message_content(sargs.summarize_recursively,
                                        sloc.accumulated_summaries, chunk)
       IN  calls' = Append(calls,
                [ messages |-> messages_of(sloc.system_message_content, user),
                  status |-> "pending", response |-> <<>> ])
    /\ pc' = "awaiting"
    /\ UNCHANGED <<stdout, packer, chunker, sargs, sloc, passes, outcome>>

\* lines 298-299: the service answers and the answer is appended
CallReturns ==
    /\ pc = "awaiting"
    /\ \E response \in Responses :
          /\ calls' = [calls EXCEPT ![Len(calls)] =
                          [@ EXCEPT !.status = "ok", !.response = response]]
          /\ sloc' = [sloc EXCEPT
                          !.accumulated_summaries = Append(@, response),
                          !.k = @ + 1]
    /\ pc' = "for_chunk"
    /\ UNCHANGED <<stdout, packer, chunker, sargs, passes, outcome>>

SalvagePartial(error) ==
    [ pc |-> "returned",
      outcome |-> Returned(Join(sloc.accumulated_summaries, BlankLine)) ]

\* no handler encloses the call of line 298: the error leaves summarize
Propagate(error) == [ pc |-> "raised", outcome |-> Raised(error) ]

\* line 298: the service fails
CallFails ==
    /\ pc = "awaiting"
    /\ calls' = [calls EXCEPT ![Len(calls)] = [@ EXCEPT !.status = "error"]]
    /\ pc' = Propagate("ServiceError").pc
    /\ outcome' = Propagate("ServiceError").outcome
    /\ UNCHANGED <<stdout, packer, chunker, sargs, sloc, passes>>

\* lines 302-304
ReturnSummary ==
    /\ pc = "for_chunk"
    /\ ~ChunksLeft(sloc.k, sloc.text_chunks)
    /\ outcome' = Returned(final_summary(sloc.accumulated_summaries))
    /\ pc' = "returned"
    /\ UNCHANGED <<stdout, packer, chunker, sargs, sloc, passes, calls>>

NextSum ==
    \/ CheckDetail \/ Probe \/ Rechunk
    \/ IssueCall \/ CallReturns \/ CallFails \/ ReturnSummary

SpecSum == InitSum /\ [][NextSum]_vars

(* ------------------- properties of the chunk packer -------------------- *)
RECURSIVE Flatten(_)
Flatten(groups) ==
    IF groups = <<>> THEN <<>> ELSE Head(groups) \o Flatten(Tail(groups))

\* the segment at index i is skipped by the test of line 181
Oversized(i) == Overflows(args, args.chunks[i + 1])

\* the indices below n of the segments that are not skipped, in increasing order
RECURSIVE FittingBelow(_)
FittingBelow(n) ==
    IF n = 0 THEN <<>>
    ELSE IF Oversized(n - 1) THEN FittingBelow(n - 1)
    ELSE Append(FittingBelow(n - 1), n - 1)

Range(q) == { q[j] : j \in 1..Len(q) }

\* C1: every chunk in output, sealed in the loop or at the end, has a token
\* count (on the delimiter-joined text, header and ellipsis markers included)
\* that is at most max_tokens.
C1_ChunksWithinBudget ==
    \A k \in 1..Len(loc.output) : Len(tokenize(loc.output[k])) <= args.max_tokens

C1_Witness ==
    /\ pc = "done"
    /\ Len(loc.output) >= 2
    /\ args.header # <<>>
    /\ loc.dropped_chunk_count >= 1
    /\ \E k \in 1..Len(loc.output) : Len(tokenize(loc.output[k])) = args.max_tokens

\* C2: the index groups concatenated in chunk order are exactly the increasing
\* sequence of the indices of the segments that were not skipped as oversized:
\* during the loop together with the candidate's indices, at the end alone.
C2_IndexGroupsPartition ==
    /\ pc = "loop" =>
         Flatten(loc.output_indices) \o loc.candidate_indices = FittingBelow(chunk_i)
    /\ pc = "done" =>
         Flatten(loc.output_indices) = FittingBelow(Len(args.chunks))

C2_Witness ==
    /\ pc = "done"
    /\ Len(args.chunks) = MaxSegs
    /\ Len(loc.output_indices) >= 2
    /\ \E i \in 0..(Len(args.chunks) - 1) : Oversized(i)
    /\ Len(FittingBelow(Len(args.chunks))) >= 2

\* C3 as stated: every index group is a run i, i+1, ..., j without gaps.
C3_GroupsContiguous ==
    \A k \in 1..Len(loc.output_indices) :
        \A j \in 1..(Len(loc.output_indices[k]) - 1) :
            loc.output_indices[k][j + 1] = loc.output_indices[k][j] + 1

\* an increasing run of non-skipped indices whose gaps are skipped segments only
RunOverFitting(g) ==
    /\ \A j \in 1..Len(g) : ~Oversized(g[j])
    /\ \A j \in 1..(Len(g) - 1) :
          /\ g[j] < g[j + 1]
          /\ \A i \in (g[j] + 1)..(g[j + 1] - 1) : Oversized(i)

\* C3 (amended): every index group is a strictly increasing run of indices of
\* non-skipped segments, and every index between two neighbours of a group
\* that the group leaves out is the index of a skipped oversized segment.
C3_GroupsIncreasingOverFitting ==
    /\ \A k \in 1..Len(loc.output_indices) : RunOverFitting(loc.output_indices[k])
    /\ RunOverFitting(loc.candidate_indices)

C3_Witness ==
    /\ pc = "done"
    /\ \E k \in 1..Len(loc.output_indices) :
          \E j \in 1..(Len(loc.output_indices[k]) - 1) :
              loc.output_indices[k][j + 1] > loc.output_indices[k][j] + 1

\* C4: the dropped count returned equals the number of segments that could not
\* fit alone (with header) within max_tokens.
C4_DroppedCountsOversized ==
    pc = "done" =>
        loc.dropped_chunk_count
            = Cardinality({ i \in 0..(Len(args.chunks) - 1) : Oversized(i) })

(* ------------------ properties of chunk_on_delimiter ------------------- *)
\* the segments of the call that are in no returned chunk
DroppedSegments ==
    { i \in 0..(Len(args.chunks) - 1) : i \notin Range(Flatten(loc.output_indices)) }

\* the aggregate warnings printed
AggregateWarnings ==
    { j \in 1..Len(stdout) : stdout[j][1] = "warning: chunks were dropped due to overflow" }

\* C5: a call of chunk_on_delimiter prints the aggregate dropped-chunks
\* warning exactly once if a segment was dropped during the call, and not at
\* all if none was.
C5_WarnedOnceIffDropped ==
    pc = "returned" =>
        Cardinality(AggregateWarnings) = (IF DroppedSegments # {} THEN 1 ELSE 0)

(* ----------------------- properties of summarize ----------------------- *)
UserContent(call) == call.messages[2].content

IsSuffix(suffix, s) ==
    /\ Len(suffix) <= Len(s)
    /\ SubSeq(s, Len(s) - Len(suffix) + 1, Len(s)) = suffix

\* C6: with detail outside [0, 1] summarize fails at once with the assertion
\* error: no chunking pass has run, nothing was printed and no completion
\* call was issued.
C6_BadDetailFailsAtOnce ==
    ((sargs.detail < 0 \/ sargs.detail > DetailDen) /\ pc # "assert") =>
        /\ pc = "raised"
        /\ outcome = Raised("AssertionError")
        /\ passes = <<>>
        /\ stdout = <<>>
        /\ calls = <<>>

C6_Witness ==
    /\ sargs.detail > DetailDen
    /\ pc = "raised"
    /\ outcome = Raised("AssertionError")

\* C7: the k-th request the service receives carries the k-th chunk of the real
\* pass, a request is issued only when every earlier one was answered, there
\* are never more requests than chunks, and when summarize returns there is
\* exactly one answered request per chunk.
C7_OneCallPerChunkInOrder ==
    /\ Len(calls) <= Len(sloc.text_chunks)
    /\ \A j \in 1..Len(calls) :
          /\ IsSuffix(sloc.text_chunks[j], UserContent(calls[j]))
          /\ j < Len(calls) => calls[j].status = "ok"
    /\ pc = "returned" =>
          /\ Len(calls) = Len(sloc.text_chunks)
          /\ \A j \in 1..Len(calls) : calls[j].status = "ok"

C7_Witness ==
    /\ pc = "returned"
    /\ Len(sloc.text_chunks) >= 3
    /\ Len(calls) = Len(sloc.text_chunks)
    /\ sloc.text_chunks[1] # sloc.text_chunks[2]

\* the answers the service gave to the requests before the j-th
EarlierResponses(j) == [ i \in 1..(j - 1) |-> calls[i].response ]

\* C8: in recursive mode the user message for the first chunk is the chunk
\* verbatim, and for every later chunk it is the heading "Previous summaries:",
\* the summaries returned for all earlier chunks in order joined by a blank
\* line, the heading "Text to summarize next:" and the chunk itself, and
\* nothing else.
C8_RecursivePrompt ==
    sargs.summarize_recursively =>
        \A j \in 1..Len(calls) :
            UserContent(calls[j]) =
                IF j = 1 THEN sloc.text_chunks[1]
                ELSE <<"Previous summaries:">> \o BlankLine
                     \o Join(EarlierResponses(j), BlankLine)
                     \o BlankLine \o <<"Text to summarize next:">> \o BlankLine
                     \o sloc.text_chunks[j]

C8_Witness ==
    /\ sargs.summarize_recursively
    /\ pc = "returned"
    /\ Len(calls) >= 3
    /\ calls[1].response # calls[2].response

\* C9: a failed completion call is the last request the service ever receives
\* (no retry, no call for a later chunk), and summarize ends with that error
\* raised and no summary returned.
C9_ServiceFailureAborts ==
    \A j \in 1..Len(calls) :
        calls[j].status = "error" =>
            /\ j = Len(calls)
            /\ pc = "raised"
            /\ outcome = Raised("ServiceError")

C9_Witness ==
    /\ pc = "raised"
    /\ Len(calls) >= 2
    /\ calls[Len(calls)].status = "error"
    /\ sloc.accumulated_summaries # <<>>
    /\ Len(calls) < Len(sloc.text_chunks)

\* C10: the real chunking pass yields at least min_chunks and at most
\* max_chunks (the probe's count) chunks.
C10_RealPassWithinProbe ==
    Len(passes) = 2 =>
        /\ min_chunks <= Len(sloc.text_chunks)
        /\ Len(sloc.text_chunks) <= sloc.max_chunks

\* the number of chunks of summarize's real pass for the call's text,
\* minimum_chunk_size and delimiter at another detail (num_chunks > 0)
ChunksAtDetail(detail) ==
    LET probe == chunk_on_delimiter(sargs.text, sargs.minimum_chunk_size,
                                    sargs.chunk_delimiter)
        num_chunks == num_chunks_of(detail, Len(probe.combined_chunks))
        chunk_size == chunk_size_of(sargs.minimum_chunk_size,
                                    Len(tokenize(sargs.text)), num_chunks)
    IN  Len(chunk_on_delimiter(sargs.text, chunk_size,
                               sargs.chunk_delimiter).combined_chunks)

\* C11: for the same text, minimum_chunk_size and delimiter, no lower detail
\* in [0, 1] splits the document into more chunks than the detail of this call.
C11_MoreDetailNeverFewerChunks ==
    Len(passes) = 2 =>
        \A lower \in 0..sargs.detail :
            ChunksAtDetail(lower) <= Len(sloc.text_chunks)


\* C12: the chunk count interpolated from the probe's max_chunks never
\* decreases as detail goes from 0 to 1: no lower detail gives a larger
\* num_chunks than this call's detail, and no higher detail a smaller one.
C12_NumChunksMonotoneInDetail ==
    (Len(passes) >= 1 /\ DetailOk(sargs.detail)) =>
        /\ \A lower \in 0..sargs.detail :
              num_chunks_of(lower, sloc.max_chunks) <= sloc.num_chunks
        /\ \A higher \in sargs.detail..DetailDen :
              sloc.num_chunks <= num_chunks_of(higher, sloc.max_chunks)
        /\ \A d1 \in 0..DetailDen : \A d2 \in d1..DetailDen :
              num_chunks_of(d1, sloc.max_chunks) <= num_chunks_of(d2, sloc.max_chunks)

C12_Witness ==
    /\ Len(passes) >= 1
    /\ 0 < sargs.detail /\ sargs.detail < DetailDen
    /\ sloc.max_chunks >= 3
    /\ min_chunks < sloc.num_chunks /\ sloc.num_chunks < sloc.max_chunks

\* C13: for every detail with 0 <= detail < 1 the interpolated num_chunks is
\* at least 1, and summarize never fails dividing document_length by it.
C13_NumChunksPositive ==
    (Len(passes) >= 1 /\ 0 <= sargs.detail /\ sargs.detail < DetailDen) =>
        /\ sloc.num_chunks >= 1
        /\ outcome # Raised("ZeroDivisionError")

C13_Witness ==
    /\ 0 < sargs.detail /\ sargs.detail < DetailDen
    /\ Len(passes) = 2
    /\ sloc.max_chunks >= 2
    /\ sloc.chunk_size = sloc.document_length \div sloc.num_chunks
    /\ sloc.chunk_size > sargs.minimum_chunk_size


\* the text with one trailing delimiter
WholeText == sargs.text \o sargs.chunk_delimiter

\* the request for the whole text as the only chunk: the same at every detail
WholeTextRequest ==
    messages_of(system_message_content(sargs.additional_instructions), WholeText)

\* C14: if the document's token count is at most minimum_chunk_size, then at
\* every detail in [0, 1] the real pass yields the single chunk text +
\* delimiter, the only request issued is the one for that chunk, which does
\* not depend on detail, and the summary returned is the answer to it.
C14_ShortDocumentOneChunk ==
    (Len(tokenize(sargs.text)) <= sargs.minimum_chunk_size /\ Len(passes) = 2) =>
        /\ sloc.text_chunks = << WholeText >>
        /\ Len(calls) <= 1
        /\ \A j \in 1..Len(calls) : calls[j].messages = WholeTextRequest
        /\ pc = "returned" =>
              /\ Len(calls) = 1
              /\ outcome = Returned(calls[1].response)

C14_Witness ==
    /\ Len(tokenize(sargs.text)) <= sargs.minimum_chunk_size
    /\ Len(Split(sargs.text, sargs.chunk_delimiter)) >= 2
    /\ sargs.detail = DetailDen
    /\ sargs.summarize_recursively
    /\ pc = "returned"
    /\ outcome = Returned(<<"s">>)


(* --------------- further properties of chunk_on_delimiter -------------- *)
\* C15: for max_tokens >= 1 every chunk string chunk_on_delimiter returns,
\* trailing delimiter included, has at most max_tokens + count_tokens(delimiter)
\* tokens.
C15_ChunkWithinBudgetPlusDelimiter ==
    (pc = "returned" /\ cod.max_tokens >= 1) =>
        \A k \in 1..Len(combined_chunks) :
            Len(tokenize(combined_chunks[k]))
                <= cod.max_tokens + Len(tokenize(cod.delimiter))

C15_Witness ==
    /\ pc = "returned"
    /\ cod.max_tokens >= 1
    /\ Len(combined_chunks) >= 2
    /\ \E k \in 1..Len(combined_chunks) :
          Len(tokenize(combined_chunks[k]))
              = cod.max_tokens + Len(tokenize(cod.delimiter))

\* C16: every chunk chunk_on_delimiter returns ends with the delimiter, the
\* last one included, and when no segment was dropped the chunks concatenated
\* in order are the input text followed by one more delimiter.
C16_ChunksRestoreText ==
    pc = "returned" =>
        /\ \A k \in 1..Len(combined_chunks) : IsSuffix(cod.delimiter, combined_chunks[k])
        /\ DroppedSegments = {} =>
              Flatten(combined_chunks) = cod.input_string \o cod.delimiter

C16_Witness ==
    /\ pc = "returned"
    /\ DroppedSegments = {}
    /\ Len(combined_chunks) >= 2
    /\ Len(args.chunks) >= 3
    /\ cod.input_string[Len(cod.input_string)] # Dot


(* ------------------- further properties of summarize ------------------- *)
\* the answers the service has given, in the order of the requests
ResponsesGiven ==
    LET answered == { j \in 1..Len(calls) : calls[j].status = "ok" }
    IN  [ j \in 1..Cardinality(answered) |-> calls[j].response ]

\* C17: the summaries accumulated are at every moment the service's answers
\* in call order, unaltered, and when every call succeeded the value summarize
\* returns is these answers joined by a blank line.
C17_SummaryIsJoinOfResponses ==
    /\ sloc.accumulated_summaries = ResponsesGiven
    /\ pc = "returned" =>
          /\ Len(ResponsesGiven) = Len(calls)
          /\ outcome = Returned(Join(ResponsesGiven, BlankLine))

C17_Witness ==
    /\ pc = "returned"
    /\ Len(calls) >= 3
    /\ calls[1].response # calls[2].response
    /\ calls[2].response # calls[3].response


(* ---------------- further properties of the chunk packer --------------- *)
\* C18 as stated: every returned chunk has a non-empty index group.
C18_GroupsNonEmpty ==
    \A k \in 1..Len(loc.output_indices) : loc.output_indices[k] # <<>>

\* the chunk is the header, if any, and n ellipsis markers, joined
MarkersOnly(chunk, n) ==
    chunk = Join(args.header \o [ j \in 1..n |-> Ellipsis ], args.chunk_delimiter)

\* C18 (amended): with add_ellipsis_for_overflow false every returned chunk
\* has a non-empty index group; with it true a returned chunk has an empty
\* index group only if it consists of the header (if any) and one or more
\* ellipsis markers, standing for oversized segments skipped before the first
\* fitting segment of its candidate.
C18_GroupsNonEmptyUnlessMarkersOnly ==
    \A k \in 1..Len(loc.output_indices) :
        loc.output_indices[k] = <<>> =>
            /\ args.add_ellipsis_for_overflow
            /\ \E n \in 1..Len(args.chunks) : MarkersOnly(loc.output[k], n)

C18_Witness ==
    /\ pc = "done"
    /\ Len(loc.output_indices) >= 2
    /\ loc.output_indices[1] = <<>>
    /\ loc.output_indices[2] # <<>>
    /\ Oversized(0)


\* C19: a fitting segment that brings the delimiter-joined candidate to
\* exactly max_tokens is appended to the candidate and nothing is sealed; a
\* step of the loop seals a chunk only when the joined count is strictly
\* greater than max_tokens.
C19_SealOnlyWhenStrictlyOver ==
    [][ IF InLoop
        THEN LET chunk == args.chunks[chunk_i + 1]
                 count == extended_candidate_token_count(args, loc, chunk)
             IN  ~Overflows(args, chunk) =>
                    /\ count = args.max_tokens =>
                          /\ loc'.candidate = Append(loc.candidate, chunk)
                          /\ loc'.candidate_indices = Append(loc.candidate_indices, chunk_i)
                          /\ loc'.output = loc.output
                    /\ loc'.output # loc.output => count > args.max_tokens
        ELSE TRUE ]_vars

C19_Witness ==
    /\ pc = "loop"
    /\ Len(loc.output) >= 1
    /\ Len(loc.candidate_indices) >= 2
    /\ args.max_tokens >= 2
    /\ Len(tokenize(Join(loc.candidate, args.chunk_delimiter))) = args.max_tokens


\* C20: at detail = 0 num_chunks is 1, chunk_size is the larger of
\* minimum_chunk_size and the document's token count, the real pass yields
\* the single chunk text + delimiter (every segment, none dropped, no marker),
\* and a run that returns has issued exactly one completion call.
C20_DetailZeroOneChunk ==
    (sargs.detail = 0 /\ Len(passes) = 2) =>
        /\ sloc.num_chunks = 1
        /\ sloc.chunk_size >= sargs.minimum_chunk_size
        /\ sloc.chunk_size >= Len(tokenize(sargs.text))
        /\ sloc.chunk_size \in { sargs.minimum_chunk_size, Len(tokenize(sargs.text)) }
        /\ sloc.text_chunks = << sargs.text \o sargs.chunk_delimiter >>
        /\ Len(calls) <= 1
        /\ pc = "returned" => Len(calls) = 1

C20_Witness ==
    /\ sargs.detail = 0
    /\ pc = "returned"
    /\ Len(tokenize(sargs.text)) > sargs.minimum_chunk_size
    /\ sloc.max_chunks >= 3
    /\ Len(calls) = 1

\* C21: whenever the ellipsis marker alone fits within max_tokens,
\* chunk_on_delimiter returns at least one chunk for every input text, the
\* empty string included; so a probe that returns this list has a max_chunks
\* that is not 0, and the num_chunks interpolated from it is at least 1 at
\* every accepted detail, detail = 1 included.
C21_AtLeastOneChunk ==
    (pc = "returned" /\ Len(tokenize(Ellipsis)) <= cod.max_tokens) =>
        /\ Len(combined_chunks) >= 1
        /\ \A detail \in 0..DetailDen :
              num_chunks_of(detail, Len(combined_chunks)) >= 1

\* a call has returned in which every segment of a non-empty text was
\* oversized, and the one chunk returned holds markers only
C21_Witness ==
    /\ pc = "returned"
    /\ Len(tokenize(Ellipsis)) <= cod.max_tokens
    /\ cod.input_string # <<>>
    /\ loc.dropped_chunk_count = Len(args.chunks)
    /\ Len(combined_chunks) = 1
    /\ num_chunks_of(DetailDen, Len(combined_chunks)) = 1

====
